---- MODULE Spec2Model ----
(***************************************************************************)
(* Readability Helper: the readability scoring engine, the difficult-      *)
(* sentence ranker and the seam finder (src/src/extension.ts,              *)
(* src/src/seamFinder.ts, and the free-function copy of the formulas in    *)
(* src/unnamed/part_000).                                                  *)
(*                                                                         *)
(* A text is a sequence of one-character strings.  Scores are exact        *)
(* rationals [k |-> "num", n, d] (value n/d, d > 0) or the IEEE specials   *)
(* [k |-> "nan"] and [k |-> "inf"] that the unguarded divisions by a zero  *)
(* word count produce.                                                     *)
(***************************************************************************)
EXTENDS Integers, Sequences, FiniteSets, TLC

(***************************************************************************)
(* Bounds of the model.                                                    *)
(***************************************************************************)
\* longest enumerated raw document of Spec
MaxDocLen == 4
\* longest enumerated original text of SeamSpec
MaxOrigLen == 4
\* longest enumerated stripped text of SeamSpec
MaxStripLen == 3
\* longest enumerated score sequence of RankSpec
MaxSentences == 5

(***************************************************************************)
(* Character classes of the regular expressions.                           *)
(***************************************************************************)
\* \w
WordChars == {"a", "A", "b", "c"}
\* \s
SpaceChars == {" ", "\n"}
\* [\.!\?]
Terminators == {".", "!", "?"}

IsWord(ch) == ch \in WordChars
IsSpace(ch) == ch \in SpaceChars
IsTerminator(ch) == ch \in Terminators

(***************************************************************************)
(* Generic helpers on sequences.                                           *)
(***************************************************************************)
Range(s) == {s[i] : i \in 1..Len(s)}

RECURSIVE SeqsUpTo(_, _)
SeqsUpTo(S, n) ==
    IF n = 0 THEN {<<>>}
    ELSE LET shorter == SeqsUpTo(S, n - 1)
         IN  shorter \cup {Append(s, x) : s \in {t \in shorter : Len(t) = n - 1}, x \in S}

\* s.substr(from, len) with 0-based from
Substr(s, from, len) == SubSeq(s, from + 1, from + len)

\* s.replace(/\s+/g, '')
RECURSIVE RemoveSpace(_)
RemoveSpace(s) ==
    IF s = <<>> THEN <<>>
    ELSE IF IsSpace(Head(s)) THEN RemoveSpace(Tail(s))
         ELSE <<Head(s)>> \o RemoveSpace(Tail(s))

Min(S) == CHOOSE x \in S : \A y \in S : x <= y

(***************************************************************************)
(* TextStatistics.                                                         *)
(***************************************************************************)
\* docContent.match(/\w+/g) || [] : the maximal runs of word characters
RECURSIVE MatchWords(_, _, _)
MatchWords(text, i, cur) ==
    IF i > Len(text) THEN (IF cur = <<>> THEN <<>> ELSE <<cur>>)
    ELSE IF IsWord(text[i]) THEN MatchWords(text, i + 1, Append(cur, text[i]))
         ELSE (IF cur = <<>> THEN <<>> ELSE <<cur>>) \o MatchWords(text, i + 1, <<>>)

WordList(text) == MatchWords(text, 1, <<>>)

_getWordCount(docContent) == Len(WordList(docContent))

\* docContent.replace(/\s+/g, '').length
_getCharacterCount(docContent) == Len(RemoveSpace(docContent))

\* (docContent.match(/\w[.?!](\s|$)/g) || []).length
TerminatedCount(text) ==
    Cardinality({i \in 1..Len(text) :
        /\ IsWord(text[i])
        /\ i + 1 <= Len(text)
        /\ IsTerminator(text[i + 1])
        /\ (i + 2 > Len(text) \/ IsSpace(text[i + 2]))})

\* (docContent.match(/\w:?\n/g) || []).length
LineEndCount(text) ==
    Cardinality({i \in 1..Len(text) :
        /\ IsWord(text[i])
        /\ \/ (i + 1 <= Len(text) /\ text[i + 1] = "\n")
           \/ (i + 2 <= Len(text) /\ text[i + 1] = ":" /\ text[i + 2] = "\n")})

\* faulty variant of _getSentenceCount: the line-end matches are left out
_getSentenceCountTerminated(docContent) ==
    LET sentenceCount == TerminatedCount(docContent)
    IN  IF sentenceCount > 0 THEN sentenceCount ELSE 1

_getSentenceCount(docContent) ==
    LET sentenceCount == TerminatedCount(docContent) + LineEndCount(docContent)
    IN  IF sentenceCount > 0 THEN sentenceCount ELSE 1

(***************************************************************************)
(* The external services, on the model's alphabet.  The packages           *)
(* `syllable`, `dale-chall` and `spache` are not part of the repository:   *)
(* every word of the model's documents is at most one vowel group, which   *)
(* `syllable` counts as one syllable, and of those words the familiar-word *)
(* lists hold exactly the lower-case article "a".                          *)
(***************************************************************************)
\* syllable(docContent)
syllable(text) == Len(WordList(text))

\* require('dale-chall'), require('spache')
FamiliarWords(vocabulary) == {<<"a">>}

_getSyllableCount(docContent) == syllable(docContent)

RECURSIVE CountIn(_, _)
CountIn(wordList, familiarWords) ==
    IF wordList = <<>> THEN 0
    ELSE (IF Head(wordList) \in familiarWords THEN 1 ELSE 0)
         + CountIn(Tail(wordList), familiarWords)

\* difficultWordCount += (familiarWords.indexOf(word) > -1) ? 1 : 0
_getDifficultWordCount(docContent, vocabulary) ==
    IF vocabulary \in {"dale-chall", "spache"}
    THEN CountIn(WordList(docContent), FamiliarWords(vocabulary))
    ELSE 0

RECURSIVE CountPolysyllabic(_)
CountPolysyllabic(wordList) ==
    IF wordList = <<>> THEN 0
    ELSE (IF syllable(Head(wordList)) >= 3 THEN 1 ELSE 0)
         + CountPolysyllabic(Tail(wordList))

_getPolysyllabicWordCount(docContent) == CountPolysyllabic(WordList(docContent))

(***************************************************************************)
(* Numbers.  Num(n, d) is the real n/d; Root(n, d) is the SMOG value       *)
(* 3.1291 + 1.0430 * sqrt(n/d); NaN and Inf are what IEEE division by a    *)
(* zero word count gives.  Arithmetic is exact: the model does not follow  *)
(* the rounding error of doubles.                                          *)
(***************************************************************************)
Num(n, d) == [k |-> "num", n |-> n, d |-> d]
Root(n, d) == [k |-> "root", n |-> n, d |-> d]
NaN == [k |-> "nan", n |-> 0, d |-> 1]
Inf == [k |-> "inf", n |-> 0, d |-> 1]

\* the sign of a/b - c/d for b, d > 0, by continued fractions (no products)
RECURSIVE CmpQ(_, _, _, _)
CmpQ(a, b, c, d) ==
    LET q1 == a \div b
        q2 == c \div d
        r1 == a % b
        r2 == c % d
    IN  IF q1 < q2 THEN -1
        ELSE IF q1 > q2 THEN 1
        ELSE IF r1 = 0 /\ r2 = 0 THEN 0
        ELSE IF r1 = 0 THEN -1
        ELSE IF r2 = 0 THEN 1
        ELSE CmpQ(d, r2, b, r1)

\* least m >= from with 3.1291 + 1.0430 * sqrt(n/d) < m + 0.5
RECURSIVE RoundRootFrom(_, _, _)
RoundRootFrom(n, d, m) ==
    IF 10430 * 10430 * n < (10000 * m - 26291) * (10000 * m - 26291) * d
    THEN m
    ELSE RoundRootFrom(n, d, m + 1)

\* Math.round(x): floor(x + 0.5)
MathRound(x) ==
    IF x.k = "num" THEN Num((2 * x.n + x.d) \div (2 * x.d), 1)
    ELSE IF x.k = "root" THEN Num(RoundRootFrom(x.n, x.d, 3), 1)
    ELSE x

\* Math.ceil(x)
MathCeil(x) ==
    IF x.k = "num" THEN Num(0 - ((0 - x.n) \div x.d), 1)
    ELSE x

\* Number(x.toFixed(1))
ToFixed1(x) ==
    IF x.k = "num" THEN Num((20 * x.n + x.d) \div (2 * x.d), 10)
    ELSE x

\* whether the double a - b is NaN
DiffIsNaN(a, b) ==
    \/ a.k = "nan"
    \/ b.k = "nan"
    \/ (a.k = "inf" /\ b.k = "inf")

\* the sign of the double a - b when it is a number
Minus(a, b) ==
    IF a.k = "inf" THEN 1
    ELSE IF b.k = "inf" THEN -1
    ELSE CmpQ(a.n, a.d, b.n, b.d)

\* faulty variant of Less: the comparison also holds at equality
LessOrEqual(a, b) ==
    IF a.k = "nan" \/ b.k = "nan" THEN FALSE
    ELSE IF a.k = "inf" THEN b.k = "inf"
    ELSE IF b.k = "inf" THEN TRUE
    ELSE CmpQ(a.n, a.d, b.n, b.d) <= 0

\* a < b and a > b on doubles: false whenever NaN is involved
Less(a, b) ==
    IF a.k = "nan" \/ b.k = "nan" THEN FALSE
    ELSE IF a.k = "inf" THEN FALSE
    ELSE IF b.k = "inf" THEN TRUE
    ELSE CmpQ(a.n, a.d, b.n, b.d) < 0

Greater(a, b) == Less(b, a)

(***************************************************************************)
(* ScoringEngine: the seven formulas.                                      *)
(***************************************************************************)
_calculateAutomatedReadability(sentences, words, characters) ==
    IF words = 0 THEN (IF characters = 0 THEN NaN ELSE Inf)
    ELSE Num(471 * characters * sentences + 50 * words * words
                 - 2143 * words * sentences,
             100 * words * sentences)

_getAutomatedReadabilitySentence(sentence) ==
    _calculateAutomatedReadability(1, _getWordCount(sentence), _getCharacterCount(sentence))

_getAutomatedReadabilityDoc(docContent) ==
    MathCeil(_calculateAutomatedReadability(_getSentenceCount(docContent),
        _getWordCount(docContent), _getCharacterCount(docContent)))

_calculateColemanLiau(sentences, words, characters) ==
    IF words = 0 THEN NaN
    ELSE Num(588 * characters - 2960 * sentences - 1580 * words, 100 * words)

_getColemanLiauSentence(sentence) ==
    _calculateColemanLiau(1, _getWordCount(sentence), _getCharacterCount(sentence))

_getColemanLiauDoc(docContent) ==
    MathRound(_calculateColemanLiau(_getSentenceCount(docContent),
        _getWordCount(docContent), _getCharacterCount(docContent)))

\* difficultWordPercentage = (difficultWordCount / words) * 100 is kept as the
\* pair (difficultWordCount, words)
_calculateDaleChall(sentences, words, difficultWordCount) ==
    IF words = 0 THEN NaN
    ELSE Num(157900 * difficultWordCount * sentences + 496 * words * words
                 + (IF 100 * difficultWordCount > 5 * words
                    THEN 36365 * words * sentences ELSE 0),
             10000 * words * sentences)

_getDaleChallSentence(sentence) ==
    _calculateDaleChall(1, _getWordCount(sentence),
        _getDifficultWordCount(sentence, "dale-chall"))

_getDaleChallDoc(docContent) ==
    ToFixed1(_calculateDaleChall(_getSentenceCount(docContent),
        _getWordCount(docContent), _getDifficultWordCount(docContent, "dale-chall")))

\* 206.835 - 1.015 w/s - 84.6 y/w, over the denominator 200 w s
_calculateFlesch(sentences, words, syllables) ==
    IF words = 0 THEN NaN
    ELSE Num(41367 * words * sentences - 203 * words * words
                 - 16920 * syllables * sentences,
             200 * words * sentences)

_getFleschSentence(sentence) ==
    _calculateFlesch(1, _getWordCount(sentence), _getSyllableCount(sentence))

_getFleschDoc(docContent) ==
    MathRound(_calculateFlesch(_getSentenceCount(docContent),
        _getWordCount(docContent), _getSyllableCount(docContent)))

_calculateFleschKincaid(sentences, words, syllables) ==
    IF words = 0 THEN NaN
    ELSE Num(39 * words * words + 1180 * syllables * sentences
                 - 1559 * words * sentences,
             100 * words * sentences)

_getFleschKincaidSentence(sentence) ==
    MathRound(_calculateFleschKincaid(1, _getWordCount(sentence),
        _getSyllableCount(sentence)))

_getFleschKincaidDoc(docContent) ==
    MathRound(_calculateFleschKincaid(_getSentenceCount(docContent),
        _getWordCount(docContent), _getSyllableCount(docContent)))

_calculateSMOG(sentences, polysyllables) == Root(polysyllables * 30, sentences)

_getSMOGSentence(sentence) ==
    _calculateSMOG(30, _getPolysyllabicWordCount(sentence) * 30)

_getSMOGDoc(docContent) ==
    MathRound(_calculateSMOG(_getSentenceCount(docContent),
        _getPolysyllabicWordCount(docContent)))

_calculateSpache(sentences, words, difficultWords) ==
    IF words = 0 THEN NaN
    ELSE Num(659 * words * sentences + 121 * words * words
                 + 8200 * difficultWords * sentences,
             1000 * words * sentences)

_getSpacheSentence(sentence) ==
    _calculateSpache(1, _getWordCount(sentence),
        _getDifficultWordCount(sentence, "spache"))

\* the sentence count is computed and then not used: the call passes 1
_getSpacheDoc(docContent) ==
    LET sentences == _getSentenceCount(docContent)
    IN  MathRound(_calculateSpache(1, _getWordCount(docContent),
            _getDifficultWordCount(docContent, "spache")))

\* the switch on configuredFormula
Formulas ==
    {"flesch", "flesch-kincaid", "coleman-liau", "dale-chall", "smog", "spache",
     "automated-readability"}

docFunction(configuredFormula, docContent) ==
    CASE configuredFormula = "flesch" -> _getFleschDoc(docContent)
      [] configuredFormula = "flesch-kincaid" -> _getFleschKincaidDoc(docContent)
      [] configuredFormula = "coleman-liau" -> _getColemanLiauDoc(docContent)
      [] configuredFormula = "dale-chall" -> _getDaleChallDoc(docContent)
      [] configuredFormula = "smog" -> _getSMOGDoc(docContent)
      [] configuredFormula = "spache" -> _getSpacheDoc(docContent)
      [] OTHER -> _getAutomatedReadabilityDoc(docContent)

sentenceFunction(configuredFormula, sentence) ==
    CASE configuredFormula = "flesch" -> _getFleschSentence(sentence)
      [] configuredFormula = "flesch-kincaid" -> _getFleschKincaidSentence(sentence)
      [] configuredFormula = "coleman-liau" -> _getColemanLiauSentence(sentence)
      [] configuredFormula = "dale-chall" -> _getDaleChallSentence(sentence)
      [] configuredFormula = "smog" -> _getSMOGSentence(sentence)
      [] configuredFormula = "spache" -> _getSpacheSentence(sentence)
      [] OTHER -> _getAutomatedReadabilitySentence(sentence)

(***************************************************************************)
(* SentenceSegmenter.                                                      *)
(***************************************************************************)
\* the last index of the maximal run of non-terminators starting at i
RECURSIVE BodyEnd(_, _)
BodyEnd(text, i) ==
    IF i < Len(text) /\ ~IsTerminator(text[i + 1]) THEN BodyEnd(text, i + 1) ELSE i

\* the last index of the maximal run of terminators following index i
RECURSIVE TermEnd(_, _)
TermEnd(text, i) ==
    IF i < Len(text) /\ IsTerminator(text[i + 1]) THEN TermEnd(text, i + 1) ELSE i

\* docContent.match(/([^\.!\?]+[\.!\?]+)|([^\.!\?]+$)/g) || [], from index i
RECURSIVE MatchSentences(_, _)
MatchSentences(text, i) ==
    IF i > Len(text) THEN <<>>
    ELSE IF IsTerminator(text[i]) THEN MatchSentences(text, i + 1)
    ELSE LET last == TermEnd(text, BodyEnd(text, i))
         IN  <<SubSeq(text, i, last)>> \o MatchSentences(text, last + 1)

\* sentence.trim()
RECURSIVE TrimStart(_)
TrimStart(s) == IF s # <<>> /\ IsSpace(Head(s)) THEN TrimStart(Tail(s)) ELSE s

RECURSIVE TrimEnd(_)
TrimEnd(s) ==
    IF s # <<>> /\ IsSpace(s[Len(s)]) THEN TrimEnd(SubSeq(s, 1, Len(s) - 1)) ELSE s

Trim(s) == TrimEnd(TrimStart(s))

(***************************************************************************)
(* DifficultyRanker.  An entry is <<score, sentence>>.                     *)
(***************************************************************************)
\* while (sentencesByDifficulty.length > 3)
MaxDifficult == 3

\* faulty variant of Compare: a[0] - b[0] whatever the formula
CompareAscending(configuredFormula, a, b) ==
    IF DiffIsNaN(a[1], b[1]) THEN 0 ELSE Minus(a[1], b[1])

\* the comparator handed to sort: a[0] - b[0] for flesch, b[0] - a[0] otherwise;
\* sort reads a NaN result as +0
Compare(configuredFormula, a, b) ==
    IF DiffIsNaN(a[1], b[1]) THEN 0
    ELSE IF configuredFormula = "flesch" THEN Minus(a[1], b[1])
    ELSE Minus(b[1], a[1])

\* x placed behind every element that does not compare greater than it
RECURSIVE InsertStable(_, _, _)
InsertStable(configuredFormula, sorted, x) ==
    IF sorted = <<>> THEN <<x>>
    ELSE IF Compare(configuredFormula, Head(sorted), x) > 0 THEN <<x>> \o sorted
    ELSE <<Head(sorted)>> \o InsertStable(configuredFormula, Tail(sorted), x)

RECURSIVE StableSort(_, _)
StableSort(configuredFormula, arr) ==
    IF arr = <<>> THEN <<>>
    ELSE InsertStable(configuredFormula,
             StableSort(configuredFormula, SubSeq(arr, 1, Len(arr) - 1)),
             arr[Len(arr)])

Reorderings(arr) ==
    LET n == Len(arr)
        bij == {f \in [1..n -> 1..n] : \A i, j \in 1..n : f[i] = f[j] => i = j}
    IN  {[i \in 1..n |-> arr[f[i]]] : f \in bij}

\* the comparator is a consistent ordering unless a NaN score sits between
\* scores that differ
ConsistentComparator(configuredFormula, arr) ==
    \/ \A i \in 1..Len(arr) : arr[i][1].k # "nan"
    \/ \A i, j \in 1..Len(arr) : Compare(configuredFormula, arr[i], arr[j]) = 0

\* Array.prototype.sort: stable for a consistent comparator, an
\* implementation-defined order of the same elements otherwise
SortOutcomes(configuredFormula, arr) ==
    IF ConsistentComparator(configuredFormula, arr)
    THEN {StableSort(configuredFormula, arr)}
    ELSE Reorderings(arr)

\* push, sort, pop down to the three most difficult
RankInsert(configuredFormula, coll, entry) ==
    {SubSeq(r, 1, IF Len(r) > MaxDifficult THEN MaxDifficult ELSE Len(r)) :
        r \in SortOutcomes(configuredFormula, Append(coll, entry))}

(***************************************************************************)
(* The occurrence scan.                                                    *)
(***************************************************************************)
\* docContent.indexOf(sentence, from): 0-based, -1 when there is none
IndexOf(text, sentence, from) ==
    LET start == IF from > Len(text) THEN Len(text) ELSE from
        found == {p \in start..(Len(text) - Len(sentence)) :
                     Substr(text, p, Len(sentence)) = sentence}
    IN  IF found = {} THEN -1 ELSE Min(found)

\* cleanedWarnIndexes.sort((a, b) => a[0] - b[0]), stable
RECURSIVE InsertByOffset(_, _)
InsertByOffset(sorted, x) ==
    IF sorted = <<>> THEN <<x>>
    ELSE IF Head(sorted)[1] > x[1] THEN <<x>> \o sorted
    ELSE <<Head(sorted)>> \o InsertByOffset(Tail(sorted), x)

\* faulty variant of SortByOffset: the list is left in the order of emission
SortByOffsetSkipped(arr) == arr

RECURSIVE SortByOffset(_)
SortByOffset(arr) ==
    IF arr = <<>> THEN <<>>
    ELSE InsertByOffset(SortByOffset(SubSeq(arr, 1, Len(arr) - 1)), arr[Len(arr)])

(***************************************************************************)
(* SeamFinder.lookup.  A seam is <<strippedIndex, deletedRunLength>>.      *)
(***************************************************************************)
RECURSIVE SumSeams(_, _, _)
SumSeams(seamSeq, bound, inclusive) ==
    IF seamSeq = <<>> THEN 0
    ELSE (IF (IF inclusive THEN bound >= Head(seamSeq)[1] ELSE bound > Head(seamSeq)[1])
          THEN Head(seamSeq)[2] ELSE 0)
         + SumSeams(Tail(seamSeq), bound, inclusive)

\* the total length of the runs a seam sequence records
RECURSIVE SeamLengthSum(_)
SeamLengthSum(seamSeq) ==
    IF seamSeq = <<>> THEN 0 ELSE Head(seamSeq)[2] + SeamLengthSum(Tail(seamSeq))

\* faulty variant of StartResult: startIndex > currentSeam[0]
StartResultStrict(seamSeq, startIndex) == SumSeams(seamSeq, startIndex, FALSE)

\* faulty variant of StartResult: startIndex <= currentSeam[0]
StartResultFlipped(seamSeq, startIndex) ==
    SeamLengthSum(seamSeq) - SumSeams(seamSeq, startIndex, FALSE)

\* startIndex >= currentSeam[0] adds to startResult
StartResult(seamSeq, startIndex) == SumSeams(seamSeq, startIndex, TRUE)

\* endIndex > currentSeam[0] adds to endResult
EndResult(seamSeq, endIndex) == SumSeams(seamSeq, endIndex, FALSE)

\* faulty variant of lookup: the translated end is returned as the length
lookupReturnsEnd(seamSeq, startIndex, length) ==
    LET endIndex == startIndex + length
        startResult == StartResult(seamSeq, startIndex)
        endResult == EndResult(seamSeq, endIndex)
    IN  [start |-> startResult + startIndex,
         length |-> endIndex + endResult - startResult]

\* new SeamLookup(startResult + startIndex, length + endResult - startResult)
lookup(seamSeq, startIndex, length) ==
    LET endIndex == startIndex + length
        startResult == StartResult(seamSeq, startIndex)
        endResult == EndResult(seamSeq, endIndex)
    IN  [start |-> startResult + startIndex,
         length |-> length + endResult - startResult]

(***************************************************************************)
(* Inputs.                                                                 *)
(***************************************************************************)
\* removeMd(rawDocContent): the markdown stripper is an external package; on
\* the model's alphabet it elides the emphasis marker
MarkupChars == {"*"}

RECURSIVE removeMd(_)
removeMd(raw) ==
    IF raw = <<>> THEN <<>>
    ELSE IF Head(raw) \in MarkupChars THEN removeMd(Tail(raw))
         ELSE <<Head(raw)>> \o removeMd(Tail(raw))

DocAlphabet == {"a", " ", ".", "*", "\n"}

\* a sentence followed by a line break: the text a saved file ends with
DocTrailingNewline ==
    <<"A", " ", "a", ".", "\n">>

\* one sentence three times
DocRepeated ==
    <<"a", ".", "a", ".", " ", "a", ".">>

\* four sentences of distinct lengths
DocFourSentences ==
    <<"a", " ", "a", " ", "a", ".", " ", "a", ".", " ", "a", " ", "a", ".", " ", "a", " ", "a", " ", "a", " ", "a", ".">>

\* four sentences of one length
DocTies ==
    <<"a", ".", " ", "b", ".", " ", "c", ".", " ", "A", ".">>

\* emphasis markers around words
DocBold ==
    <<"a", " ", "*", "*", "a", " ", "a", "*", "*", ".", " ", "*", "a", "*", ".">>

\* five words, two of them familiar, in two sentences
DocSpache ==
    <<"a", " ", "a", " ", "b", ".", " ", "b", " ", "b", ".">>

\* list lines and mixed terminators
DocList ==
    <<"a", ":", "\n", "b", "\n", "a", "?", "!", " ", "c">>

\* a retained fragment that also occurs inside a sentence retained twice
DocOverlap ==
    <<"a", ".", " ", "a", ".", " ", "a">>

\* one long word
DocLongWord ==
    <<"a", "a", "a", "a", "a", "a", "a", "a", ".">>

\* two sentences of different lengths and a line break after the last
DocUnevenNewline ==
    <<"a", " ", "a", ".", " ", "a", ".", "\n">>

\* a terminator on its own, a sentence without a word, between two sentences
DocBareTerminator ==
    <<"a", ".", " ", ".", " ", "a", " ", "a", ".">>

ScenarioDocs ==
    {DocBareTerminator, DocUnevenNewline, DocTrailingNewline, DocRepeated, DocFourSentences, DocTies, DocBold, DocSpache, DocList, DocOverlap, DocLongWord}

Docs == SeqsUpTo(DocAlphabet, MaxDocLen) \cup ScenarioDocs

\* readabilityCheck.warnScore.<formula>
WarnScores == {-20, 3, 121}

SeamAlphabet == {"a", "b", "*"}

\* original = "a**b**c", stripped = "abc"
SeamScenarioOriginal ==
    <<"a", "*", "*", "b", "*", "*", "c">>

SeamScenarioStripped ==
    <<"a", "b", "c">>

SeamPairs ==
    (SeqsUpTo(SeamAlphabet, MaxOrigLen) \X SeqsUpTo(SeamAlphabet, MaxStripLen))
        \cup {<<SeamScenarioOriginal, SeamScenarioStripped>>}

\* sentence scores handed to the ranker
GivenScores == {5, 10, 30, 50, 80}

(***************************************************************************)
(* The editor's documents and the two diagnostic stores.                   *)
(***************************************************************************)
Documents == {"a.md", "b.txt", "c.ts"}

NoDocument == "none"

\* doc.languageId
languageId(document) ==
    CASE document = "a.md" -> "markdown"
      [] document = "b.txt" -> "plaintext"
      [] document = "c.ts" -> "typescript"

\* doc.uri.toString() and Uri.parse(file): the string names the scheme and
\* the path, and parsing reads the path back
UriToString(document) == <<"file://", document>>

UriParse(file) == file[2]

EmptyMap == [key \in {} |-> <<>>]

\* Map.prototype.set, Map.prototype.delete
MapSet(map, key, value) ==
    [k \in DOMAIN map \cup {key} |-> IF k = key THEN value ELSE map[k]]

MapDelete(map, key) == [k \in DOMAIN map \ {key} |-> map[k]]

\* diagnosticMap.forEach((diags, file) => collection.set(Uri.parse(file), diags))
SetEach(collection, map) ==
    LET uris == {UriParse(file) : file \in DOMAIN map}
    IN  [uri \in DOMAIN collection \cup uris |->
            IF uri \in uris
            THEN map[CHOOSE file \in DOMAIN map : UriParse(file) = uri]
            ELSE collection[uri]]

\* faulty variant of resetDiagnostics: the collection is not cleared first
resetDiagnosticsKeeping(collection, map) == SetEach(collection, map)

\* diagnosticCollection.clear(), then every entry of the map is set
resetDiagnostics(collection, map) == SetEach(EmptyMap, map)

NotAnalysed == [analysed |-> FALSE, findings |-> <<>>]

Analysed(findings) == [analysed |-> TRUE, findings |-> findings]

\* texts and settings of the documents analysed one after another
DiagTexts == {DocBold, DocOverlap}

DiagFormulas == {"automated-readability"}

DiagWarnScores == {-20}

(***************************************************************************)
(* State.                                                                  *)
(***************************************************************************)
VARIABLES
    rawDocContent,          \* doc.getText(); SeamFinder.original
    docContent,             \* removeMd(rawDocContent); SeamFinder.stripped
    configuredFormula,      \* readabilityCheck.formula
    warningsEnabled,        \* readabilityCheck.warningsEnabled
    warnScore,              \* readabilityCheck.warnScore.<formula>
    readability,            \* the document score
    shouldWarn,
    sentences,              \* the matched sentences forEach has yet to visit
    pushed,                 \* history: every entry pushed so far, in document order
    sentencesByDifficulty,
    scanEntry,              \* forEach position in sentencesByDifficulty (1-based)
    index,                  \* the scan's index
    cleanedWarnIndexes,
    originalIndex,
    strippedIndex,
    seamStart,
    seams,                  \* SeamFinder.seams
    lookupPos,              \* forEach position in cleanedWarnIndexes (1-based)
    query,                  \* the arguments of the last lookup
    realIndexes,            \* the result of the last lookup
    diagnostics,
    doc,                    \* editor.document of the running updateReadability
    openDocuments,          \* the text documents the editor has open
    diagnosticMap,          \* uri string -> diagnostics
    diagnosticCollection,   \* the published collection: uri -> diagnostics
    statusBarShown,         \* whether _statusBarItem is shown
    lastAnalysis,           \* history: per document, the findings of its last
                            \* analysis since it was last closed
    pc

vars ==
    <<rawDocContent, docContent, configuredFormula, warningsEnabled, warnScore,
      readability, shouldWarn, sentences, pushed, sentencesByDifficulty, scanEntry,
      index, cleanedWarnIndexes, originalIndex, strippedIndex, seamStart, seams,
      lookupPos, query, realIndexes, diagnostics, doc, openDocuments,
      diagnosticMap, diagnosticCollection, statusBarShown, lastAnalysis, pc>>

configVars == <<configuredFormula, warningsEnabled, warnScore>>
docVars == <<rawDocContent, docContent>>
rankVars == <<sentences, pushed, sentencesByDifficulty>>
scanVars == <<scanEntry, index, cleanedWarnIndexes>>
seamVars == <<originalIndex, strippedIndex, seamStart, seams>>
lookupVars == <<lookupPos, query, realIndexes, diagnostics>>
hostVars ==
    <<doc, openDocuments, diagnosticMap, diagnosticCollection, statusBarShown,
      lastAnalysis>>

\* the locals of updateReadability and the fields of a SeamFinder, as declared
InitLocals ==
    /\ readability = Num(0, 1)
    /\ shouldWarn = FALSE
    /\ pushed = <<>>
    /\ sentencesByDifficulty = <<>>
    /\ scanEntry = 1
    /\ index = -1
    /\ cleanedWarnIndexes = <<>>
    /\ originalIndex = 0
    /\ strippedIndex = 0
    /\ seamStart = -1
    /\ seams = <<>>
    /\ lookupPos = 1
    /\ query = <<0, 0>>
    /\ realIndexes = [start |-> 0, length |-> 0]
    /\ diagnostics = <<>>

\* activate: the collection is created and the map is new
HostInit ==
    /\ diagnosticMap = EmptyMap
    /\ diagnosticCollection = EmptyMap
    /\ statusBarShown = FALSE
    /\ lastAnalysis = [document \in Documents |-> NotAnalysed]

Init ==
    /\ rawDocContent \in Docs
    /\ docContent = removeMd(rawDocContent)
    /\ configuredFormula \in Formulas
    /\ warningsEnabled \in BOOLEAN
    /\ warnScore \in WarnScores
    /\ InitLocals
    /\ sentences = <<>>
    /\ HostInit
    /\ doc \in {document \in Documents : languageId(document) \in {"markdown", "plaintext"}}
    /\ openDocuments = {doc}
    /\ pc = "start"

(***************************************************************************)
(* updateReadability, one action per step of its straight-line code and    *)
(* per iteration of its loops.                                             *)
(***************************************************************************)
\* readability = docFunction(docContent); shouldWarn; the sentence match
ScoreDocument ==
    /\ pc = "start"
    /\ LET score == docFunction(configuredFormula, docContent)
           warn == /\ warningsEnabled
                   /\ IF configuredFormula = "flesch"
                      THEN Less(score, Num(warnScore, 1))
                      ELSE Greater(score, Num(warnScore, 1))
       IN  /\ readability' = score
           /\ shouldWarn' = warn
           /\ sentences' = IF warn THEN MatchSentences(docContent, 1) ELSE <<>>
           /\ pc' = IF warn THEN "rank" ELSE "publish"
    /\ UNCHANGED <<hostVars, docVars, configVars, pushed, sentencesByDifficulty, scanVars,
                   seamVars, lookupVars>>

\* one call of the sentences.forEach callback
RankSentence ==
    /\ pc = "rank"
    /\ sentences # <<>>
    /\ LET sentence == Trim(Head(sentences))
           score == sentenceFunction(configuredFormula, sentence)
       IN  /\ pushed' = Append(pushed, <<score, sentence>>)
           /\ \E kept \in RankInsert(configuredFormula, sentencesByDifficulty,
                                     <<score, sentence>>) :
                  sentencesByDifficulty' = kept
    /\ sentences' = Tail(sentences)
    /\ UNCHANGED <<hostVars, docVars, configVars, readability, shouldWarn, scanVars, seamVars,
                   lookupVars, pc>>

\* index = docContent.indexOf(sentence) for the entry at position e
FirstIndex(e) ==
    IF e <= Len(sentencesByDifficulty)
    THEN IndexOf(docContent, sentencesByDifficulty[e][2], 0)
    ELSE -1

\* sentences.forEach returns; sentencesByDifficulty.forEach starts
RankDone ==
    /\ pc = "rank"
    /\ sentences = <<>>
    /\ scanEntry' = 1
    /\ index' = FirstIndex(1)
    /\ pc' = "scan"
    /\ UNCHANGED <<hostVars, docVars, configVars, readability, shouldWarn, rankVars,
                   cleanedWarnIndexes, seamVars, lookupVars>>

\* the model stops recording ranges here; no scan that ends records as many
ScanCap == MaxDifficult * (Len(docContent) + 1) + 1

\* one iteration of while (index != -1)
ScanMatch ==
    /\ pc = "scan"
    /\ scanEntry <= Len(sentencesByDifficulty)
    /\ index # -1
    /\ LET sentence == sentencesByDifficulty[scanEntry][2]
       IN  /\ cleanedWarnIndexes' =
                  IF Len(cleanedWarnIndexes) < ScanCap
                  THEN Append(cleanedWarnIndexes, <<index, Len(sentence)>>)
                  ELSE cleanedWarnIndexes
           /\ index' = IndexOf(docContent, sentence, index + Len(sentence))
    /\ UNCHANGED <<hostVars, docVars, configVars, readability, shouldWarn, rankVars, scanEntry,
                   seamVars, lookupVars, pc>>

\* the while loop ends; forEach moves to the next retained sentence
ScanNextSentence ==
    /\ pc = "scan"
    /\ scanEntry <= Len(sentencesByDifficulty)
    /\ index = -1
    /\ scanEntry' = scanEntry + 1
    /\ index' = FirstIndex(scanEntry + 1)
    /\ UNCHANGED <<hostVars, docVars, configVars, readability, shouldWarn, rankVars,
                   cleanedWarnIndexes, seamVars, lookupVars, pc>>

\* forEach returns; cleanedWarnIndexes.sort; new SeamFinder(...) begins
ScanDone ==
    /\ pc = "scan"
    /\ scanEntry > Len(sentencesByDifficulty)
    /\ cleanedWarnIndexes' = SortByOffset(cleanedWarnIndexes)
    /\ originalIndex' = 0
    /\ strippedIndex' = 0
    /\ seamStart' = -1
    /\ seams' = <<>>
    /\ pc' = "seam"
    /\ UNCHANGED <<hostVars, docVars, configVars, readability, shouldWarn, rankVars, scanEntry,
                   index, lookupVars>>

\* faulty variant of SeamRecord: the run is counted up to and including originalIndex
SeamRecordInclusive(si, oi, start) == <<si, oi - start + 1>>

\* this.seams.push([strippedIndex, originalIndex - seamStart])
SeamRecord(si, oi, start) == <<si, oi - start>>

\* while (originalIndex < original.length && strippedIndex < stripped.length)
SeamCondition ==
    originalIndex < Len(rawDocContent) /\ strippedIndex < Len(docContent)

\* one iteration of the constructor's loop
SeamWalk ==
    /\ pc = "seam"
    /\ SeamCondition
    /\ IF rawDocContent[originalIndex + 1] = docContent[strippedIndex + 1]
       THEN /\ IF seamStart # -1
               THEN /\ seams' = Append(seams, SeamRecord(strippedIndex, originalIndex,
                                                        seamStart))
                    /\ seamStart' = -1
               ELSE UNCHANGED <<seams, seamStart>>
            /\ strippedIndex' = strippedIndex + 1
       ELSE /\ seamStart' = IF seamStart = -1 THEN originalIndex ELSE seamStart
            /\ UNCHANGED <<seams, strippedIndex>>
    /\ originalIndex' = originalIndex + 1
    /\ UNCHANGED <<hostVars, docVars, configVars, readability, shouldWarn, rankVars, scanVars,
                   lookupVars, pc>>

\* faulty variant of SeamDone: a run still open when the walk stops is recorded
SeamDoneRecordsOpenRun ==
    /\ pc = "seam"
    /\ ~SeamCondition
    /\ seams' = IF seamStart # -1
                THEN Append(seams, SeamRecord(strippedIndex, originalIndex, seamStart))
                ELSE seams
    /\ lookupPos' = 1
    /\ pc' = "lookup"
    /\ UNCHANGED <<hostVars, docVars, configVars, readability, shouldWarn, rankVars, scanVars,
                   originalIndex, strippedIndex, seamStart, query, realIndexes,
                   diagnostics>>

\* the constructor returns
SeamDone ==
    /\ pc = "seam"
    /\ ~SeamCondition
    /\ lookupPos' = 1
    /\ pc' = "lookup"
    /\ UNCHANGED <<hostVars, docVars, configVars, readability, shouldWarn, rankVars, scanVars,
                   seamVars, query, realIndexes, diagnostics>>

\* one call of the cleanedWarnIndexes.forEach callback; a Diagnostic is kept
\* as the offsets of its Range
TranslateRange ==
    /\ pc = "lookup"
    /\ lookupPos <= Len(cleanedWarnIndexes)
    /\ LET indexSet == cleanedWarnIndexes[lookupPos]
           found == lookup(seams, indexSet[1], indexSet[2])
       IN  /\ query' = indexSet
           /\ realIndexes' = found
           /\ diagnostics' = Append(diagnostics, <<found.start, found.start + found.length>>)
    /\ lookupPos' = lookupPos + 1
    /\ UNCHANGED <<hostVars, docVars, configVars, readability, shouldWarn, rankVars, scanVars,
                   seamVars, pc>>

\* forEach returns
TranslateDone ==
    /\ pc = "lookup"
    /\ lookupPos > Len(cleanedWarnIndexes)
    /\ pc' = "publish"
    /\ UNCHANGED <<hostVars, docVars, configVars, readability, shouldWarn, rankVars, scanVars,
                   seamVars, lookupVars>>

\* diagnosticMap.set(doc.uri.toString(), diagnostics); resetDiagnostics();
\* the status bar is shown; updateReadability returns
Publish ==
    /\ pc = "publish"
    /\ diagnosticMap' = MapSet(diagnosticMap, UriToString(doc), diagnostics)
    /\ diagnosticCollection' = resetDiagnostics(diagnosticCollection, diagnosticMap')
    /\ statusBarShown' = TRUE
    /\ lastAnalysis' = [lastAnalysis EXCEPT ![doc] = Analysed(diagnostics)]
    /\ pc' = "done"
    /\ UNCHANGED <<doc, openDocuments, docVars, configVars, readability, shouldWarn,
                   rankVars, scanVars, seamVars, lookupVars>>

Next ==
    \/ ScoreDocument
    \/ RankSentence
    \/ RankDone
    \/ ScanMatch
    \/ ScanNextSentence
    \/ ScanDone
    \/ SeamWalk
    \/ SeamDone
    \/ TranslateRange
    \/ TranslateDone
    \/ Publish

Spec == Init /\ [][Next]_vars

(***************************************************************************)
(* SeamFinder on its own: any pair of texts, then any lookups.             *)
(***************************************************************************)
SeamInit ==
    /\ \E pair \in SeamPairs :
           /\ rawDocContent = pair[1]
           /\ docContent = pair[2]
    /\ configuredFormula = "flesch"
    /\ warningsEnabled = TRUE
    /\ warnScore = 0
    /\ InitLocals
    /\ sentences = <<>>
    /\ HostInit
    /\ doc = "a.md"
    /\ openDocuments = {doc}
    /\ pc = "seam"

\* faulty variant of SeamQuery: the lookup consumes the seams it has walked
SeamQueryConsuming ==
    /\ pc = "lookup"
    /\ \E startIndex \in 0..Len(docContent) :
           \E length \in 0..(Len(docContent) - startIndex) :
               /\ query' = <<startIndex, length>>
               /\ realIndexes' = lookup(seams, startIndex, length)
    /\ seams' = <<>>
    /\ UNCHANGED <<hostVars, docVars, configVars, readability, shouldWarn, rankVars, scanVars,
                   originalIndex, strippedIndex, seamStart, lookupPos, diagnostics, pc>>

\* sf.lookup(startIndex, length) for a range of the stripped text
SeamQuery ==
    /\ pc = "lookup"
    /\ \E startIndex \in 0..Len(docContent) :
           \E length \in 0..(Len(docContent) - startIndex) :
               /\ query' = <<startIndex, length>>
               /\ realIndexes' = lookup(seams, startIndex, length)
    /\ UNCHANGED <<hostVars, docVars, configVars, readability, shouldWarn, rankVars, scanVars,
                   seamVars, lookupPos, diagnostics, pc>>

SeamNext ==
    \/ SeamWalk
    \/ SeamDone
    \/ SeamQuery

SeamSpec == SeamInit /\ [][SeamNext]_vars

\* the constructor is straight-line synchronous code: once entered, its loop
\* keeps taking steps until its condition fails and it returns
SeamFairSpec == SeamSpec /\ WF_vars(SeamWalk \/ SeamDone)

(***************************************************************************)
(* DifficultyRanker on its own: the sentences are given with their scores. *)
(***************************************************************************)
\* a given sentence is <<score, position in the document>>
GivenSentences(scores) == [i \in 1..Len(scores) |-> <<scores[i], i>>]

RankInit ==
    /\ rawDocContent = <<>>
    /\ docContent = <<>>
    /\ configuredFormula \in {"flesch", "automated-readability"}
    /\ warningsEnabled = TRUE
    /\ warnScore = 0
    /\ InitLocals
    /\ \E scores \in SeqsUpTo(GivenScores, MaxSentences) :
           sentences = GivenSentences(scores)
    /\ HostInit
    /\ doc = "a.md"
    /\ openDocuments = {doc}
    /\ pc = "rank"

\* one call of the sentences.forEach callback, the score given
RankGiven ==
    /\ pc = "rank"
    /\ sentences # <<>>
    /\ LET sentence == Head(sentences)
           score == Num(sentence[1], 1)
       IN  /\ pushed' = Append(pushed, <<score, sentence>>)
           /\ \E kept \in RankInsert(configuredFormula, sentencesByDifficulty,
                                     <<score, sentence>>) :
                  sentencesByDifficulty' = kept
    /\ sentences' = Tail(sentences)
    /\ UNCHANGED <<hostVars, docVars, configVars, readability, shouldWarn, scanVars, seamVars,
                   lookupVars, pc>>

RankNext ==
    \/ RankGiven

RankSpec == RankInit /\ [][RankNext]_vars

(***************************************************************************)
(* The extension between events: updateReadability runs on a command, an   *)
(* open or a save, for whatever document the active editor shows, and      *)
(* documents are closed.  Handlers run to completion, so an event is       *)
(* taken only when no updateReadability is running.                        *)
(***************************************************************************)
DiagInit ==
    /\ rawDocContent = <<>>
    /\ docContent = <<>>
    /\ configuredFormula = "automated-readability"
    /\ warningsEnabled = FALSE
    /\ warnScore = 0
    /\ InitLocals
    /\ sentences = <<>>
    /\ HostInit
    /\ doc = NoDocument
    /\ openDocuments = {}
    /\ pc = "done"

\* updateReadability up to the configuration and the text being read: without
\* an editor, or with a document of another language, the status bar is
\* hidden and nothing else happens
UpdateReadability ==
    /\ pc = "done"
    /\ \E editor \in Documents \cup {NoDocument} :
           IF editor = NoDocument
           THEN /\ statusBarShown' = FALSE
                /\ UNCHANGED <<doc, openDocuments, diagnosticMap, diagnosticCollection,
                               lastAnalysis, docVars, configVars, readability,
                               shouldWarn, rankVars, scanVars, seamVars, lookupVars, pc>>
           ELSE IF languageId(editor) \notin {"markdown", "plaintext"}
           THEN /\ doc' = editor
                /\ openDocuments' = openDocuments \cup {editor}
                /\ statusBarShown' = FALSE
                /\ UNCHANGED <<diagnosticMap, diagnosticCollection, lastAnalysis,
                               docVars, configVars, readability, shouldWarn, rankVars,
                               scanVars, seamVars, lookupVars, pc>>
           ELSE /\ doc' = editor
                /\ openDocuments' = openDocuments \cup {editor}
                /\ configuredFormula' \in DiagFormulas
                /\ warningsEnabled' \in BOOLEAN
                /\ warnScore' \in DiagWarnScores
                /\ rawDocContent' \in DiagTexts
                /\ docContent' = removeMd(rawDocContent')
                /\ readability' = Num(0, 1)
                /\ shouldWarn' = FALSE
                /\ sentences' = <<>>
                /\ pushed' = <<>>
                /\ sentencesByDifficulty' = <<>>
                /\ scanEntry' = 1
                /\ index' = -1
                /\ cleanedWarnIndexes' = <<>>
                /\ originalIndex' = 0
                /\ strippedIndex' = 0
                /\ seamStart' = -1
                /\ seams' = <<>>
                /\ lookupPos' = 1
                /\ query' = <<0, 0>>
                /\ realIndexes' = [start |-> 0, length |-> 0]
                /\ diagnostics' = <<>>
                /\ pc' = "start"
                /\ UNCHANGED <<diagnosticMap, diagnosticCollection, statusBarShown,
                               lastAnalysis>>

\* the onDidCloseTextDocument handler
CloseDocument ==
    /\ pc = "done"
    /\ \E closed \in openDocuments :
           /\ openDocuments' = openDocuments \ {closed}
           /\ diagnosticMap' =
                  IF UriToString(closed) \in DOMAIN diagnosticMap
                  THEN MapDelete(diagnosticMap, UriToString(closed))
                  ELSE diagnosticMap
           /\ lastAnalysis' = [lastAnalysis EXCEPT ![closed] = NotAnalysed]
    /\ diagnosticCollection' = resetDiagnostics(diagnosticCollection, diagnosticMap')
    /\ UNCHANGED <<doc, statusBarShown, docVars, configVars, readability, shouldWarn,
                   rankVars, scanVars, seamVars, lookupVars, pc>>

DiagNext ==
    \/ UpdateReadability
    \/ CloseDocument
    \/ ScoreDocument
    \/ RankSentence
    \/ RankDone
    \/ ScanMatch
    \/ ScanNextSentence
    \/ ScanDone
    \/ SeamWalk
    \/ SeamDone
    \/ TranslateRange
    \/ TranslateDone
    \/ Publish

DiagSpec == DiagInit /\ [][DiagNext]_vars

(***************************************************************************)
(* Reference notions the properties are stated with.                       *)
(***************************************************************************)
RECURSIVE IsSubsequence(_, _)
IsSubsequence(s, t) ==
    IF s = <<>> THEN TRUE
    ELSE IF t = <<>> THEN FALSE
    ELSE IF Head(s) = Head(t) THEN IsSubsequence(Tail(s), Tail(t))
    ELSE IsSubsequence(s, Tail(t))

\* the 0-based position in original of the character matched to the 0-based
\* stripped position i by the leftmost embedding; -1 for i = -1
RECURSIVE AlignPos(_, _, _)
AlignPos(original, stripped, i) ==
    IF i < 0 THEN -1
    ELSE LET prev == AlignPos(original, stripped, i - 1)
         IN  Min({k \in (prev + 1)..(Len(original) - 1) : original[k + 1] = stripped[i + 1]})

\* the number of original characters elided right before stripped position i
ElidedBefore(original, stripped, i) ==
    AlignPos(original, stripped, i) - AlignPos(original, stripped, i - 1) - 1

\* the elided runs that a matched character follows, in stripped order
RECURSIVE ElidedRuns(_, _, _)
ElidedRuns(original, stripped, i) ==
    IF i >= Len(stripped) THEN <<>>
    ELSE (IF ElidedBefore(original, stripped, i) > 0
          THEN <<<<i, ElidedBefore(original, stripped, i)>>>>
          ELSE <<>>)
         \o ElidedRuns(original, stripped, i + 1)

\* the stripped positions whose matched character lies in original[from, from + len)
KeptPositions(original, stripped, from, len) ==
    {i \in 0..(Len(stripped) - 1) :
        /\ from <= AlignPos(original, stripped, i)
        /\ AlignPos(original, stripped, i) < from + len}

ValidRanges(text) ==
    {r \in (0..Len(text)) \X (0..Len(text)) : r[1] + r[2] <= Len(text)}

Constructed == pc = "lookup"

(***************************************************************************)
(* C1.  SeamFinder round trip: when stripped is a subsequence of original, *)
(* every valid stripped range (offset, length) is translated to a range of *)
(* original whose kept characters, those matched to a stripped position,   *)
(* are exactly the stripped positions offset .. offset + length - 1, so    *)
(* that dropping the elided characters from the original span gives back   *)
(* the stripped span; a non-empty stripped range translates to a span      *)
(* inside original.                                                        *)
(***************************************************************************)
C1_RoundTrip ==
    (Constructed /\ IsSubsequence(docContent, rawDocContent)) =>
        \A r \in ValidRanges(docContent) :
            LET found == lookup(seams, r[1], r[2])
            IN  /\ KeptPositions(rawDocContent, docContent, found.start, found.length)
                       = r[1]..(r[1] + r[2] - 1)
                /\ r[2] > 0 =>
                       /\ 0 <= found.start
                       /\ found.start + found.length <= Len(rawDocContent)
                       /\ found.start = AlignPos(rawDocContent, docContent, r[1])

C1_Witness ==
    /\ Constructed
    /\ IsSubsequence(docContent, rawDocContent)
    /\ Len(seams) >= 2
    /\ query[2] >= 2
    /\ realIndexes = lookup(seams, query[1], query[2])
    /\ realIndexes.start > query[1]
    /\ realIndexes.length > query[2]

(***************************************************************************)
(* C2.  Termination of the occurrence scan: every iteration of             *)
(* while (index != -1) that stays in the loop moves the search position    *)
(* strictly forward, which bounds the loop by the length of the text.  An  *)
(* iteration that leaves index where it was repeats for ever, the loop's   *)
(* condition depending on nothing else.                                    *)
(***************************************************************************)
C2_ScanTerminates ==
    [][(pc = "scan" /\ pc' = "scan" /\ scanEntry' = scanEntry /\ index' # -1)
           => index' > index]_vars

(***************************************************************************)
(* C3.  Every WarnRange emitted by the occurrence scan has offset >= 0 and *)
(* length >= 1 and spans exactly one of the retained sentences.            *)
(***************************************************************************)
C3_WarnRangeShape ==
    \A i \in 1..Len(cleanedWarnIndexes) :
        LET range == cleanedWarnIndexes[i]
        IN  /\ range[1] >= 0
            /\ range[2] >= 1
            /\ range[1] + range[2] <= Len(docContent)
            /\ \E e \in 1..Len(sentencesByDifficulty) :
                   Substr(docContent, range[1], range[2]) = sentencesByDifficulty[e][2]

(***************************************************************************)
(* C4.  The difficult-word count of the scored text, for either            *)
(* vocabulary, is the number of its words that are absent from the         *)
(* vocabulary's familiar-word list.                                        *)
(***************************************************************************)
AbsentWordCount(text, vocabulary) ==
    Cardinality({i \in 1..Len(WordList(text)) :
        WordList(text)[i] \notin FamiliarWords(vocabulary)})

C4_DifficultWordsAreAbsent ==
    pc # "start" =>
        \A vocabulary \in {"dale-chall", "spache"} :
            _getDifficultWordCount(docContent, vocabulary)
                = AbsentWordCount(docContent, vocabulary)

(***************************************************************************)
(* C5.  The document score is the formula body evaluated with              *)
(* sentences = sentenceCount(text) and the whole text's counts, rounded by *)
(* the formula's document rounding rule.                                   *)
(***************************************************************************)
DocumentScore(formula, text) ==
    LET sentenceCount == _getSentenceCount(text)
        words == _getWordCount(text)
    IN  CASE formula = "flesch" ->
                MathRound(_calculateFlesch(sentenceCount, words, _getSyllableCount(text)))
          [] formula = "flesch-kincaid" ->
                MathRound(_calculateFleschKincaid(sentenceCount, words,
                    _getSyllableCount(text)))
          [] formula = "coleman-liau" ->
                MathRound(_calculateColemanLiau(sentenceCount, words,
                    _getCharacterCount(text)))
          [] formula = "dale-chall" ->
                ToFixed1(_calculateDaleChall(sentenceCount, words,
                    _getDifficultWordCount(text, "dale-chall")))
          [] formula = "smog" ->
                MathRound(_calculateSMOG(sentenceCount, _getPolysyllabicWordCount(text)))
          [] formula = "spache" ->
                MathRound(_calculateSpache(sentenceCount, words,
                    _getDifficultWordCount(text, "spache")))
          [] OTHER ->
                MathCeil(_calculateAutomatedReadability(sentenceCount, words,
                    _getCharacterCount(text)))

C5_DocumentScoreUsesSentenceCount ==
    pc # "start" => readability = DocumentScore(configuredFormula, docContent)

(***************************************************************************)
(* C6.  The ranker's result does not depend on the order of the sentences  *)
(* when their scores are pairwise distinct and finite: after every         *)
(* insertion the retained collection holds exactly the min(3, n) most      *)
(* difficult sentences seen, the highest scores for every formula but      *)
(* Flesch Reading Ease and the lowest for Flesch; the scores 10, 50, 5,    *)
(* 80, 30 in any order leave 80, 50, 30 when higher is more difficult.     *)
(***************************************************************************)
ScoreValue(entry) == entry[1].n

DistinctFinite(entries) ==
    /\ \A i \in 1..Len(entries) : entries[i][1].k = "num" /\ entries[i][1].d = 1
    /\ \A i, j \in 1..Len(entries) :
           i # j => ScoreValue(entries[i]) # ScoreValue(entries[j])

MoreDifficult(formula, a, b) ==
    IF formula = "flesch" THEN ScoreValue(a) < ScoreValue(b)
    ELSE ScoreValue(a) > ScoreValue(b)

MostDifficult(formula, entries) ==
    {e \in Range(entries) :
        Cardinality({f \in Range(entries) : MoreDifficult(formula, f, e)}) < 3}

C6_RankerOrderIndependent ==
    DistinctFinite(pushed) =>
        /\ Range(sentencesByDifficulty) = MostDifficult(configuredFormula, pushed)
        /\ Len(sentencesByDifficulty) = Cardinality(MostDifficult(configuredFormula, pushed))
        /\ ({ScoreValue(e) : e \in Range(pushed)} = {10, 50, 5, 80, 30}
              /\ configuredFormula # "flesch")
           => {ScoreValue(e) : e \in Range(sentencesByDifficulty)} = {80, 50, 30}

C6_Witness ==
    /\ sentences = <<>>
    /\ configuredFormula # "flesch"
    /\ [i \in 1..Len(pushed) |-> ScoreValue(pushed[i])] = <<10, 50, 5, 80, 30>>
    /\ {ScoreValue(e) : e \in Range(sentencesByDifficulty)} = {80, 50, 30}

(***************************************************************************)
(* C7.  Construction on a stripped text that is a subsequence of original  *)
(* yields the seams in strictly increasing strippedIndex order, one seam   *)
(* (i, n), n >= 1, for every maximal run of n original characters elided   *)
(* right before the character matched to stripped position i, and no       *)
(* other; "a**b**c" against "abc" gives two seams of length 2 and          *)
(* lookup(1, 1) = (3, 1).                                                  *)
(***************************************************************************)
C7_SeamsAreElidedRuns ==
    (Constructed /\ IsSubsequence(docContent, rawDocContent)) =>
        /\ seams = ElidedRuns(rawDocContent, docContent, 0)
        /\ \A i \in 1..Len(seams) : seams[i][2] >= 1
        /\ \A i, j \in 1..Len(seams) : i < j => seams[i][1] < seams[j][1]
        /\ (rawDocContent = SeamScenarioOriginal /\ docContent = SeamScenarioStripped)
           => /\ seams = <<<<1, 2>>, <<2, 2>>>>
              /\ lookup(seams, 1, 1) = [start |-> 3, length |-> 1]

C7_Witness ==
    /\ Constructed
    /\ rawDocContent = SeamScenarioOriginal
    /\ docContent = SeamScenarioStripped
    /\ seams = <<<<1, 2>>, <<2, 2>>>>
    /\ query = <<1, 1>>
    /\ realIndexes = [start |-> 3, length |-> 1]

(***************************************************************************)
(* C8.  With stripped equal to original the seam sequence is empty and     *)
(* lookup(o, l) = (o, l) for every valid range.                            *)
(***************************************************************************)
C8_IdentityOnEqualTexts ==
    (Constructed /\ docContent = rawDocContent) =>
        /\ seams = <<>>
        /\ \A r \in ValidRanges(docContent) :
               lookup(seams, r[1], r[2]) = [start |-> r[1], length |-> r[2]]

C8_Witness ==
    /\ Constructed
    /\ docContent = rawDocContent
    /\ Len(docContent) >= 3
    /\ seams = <<>>
    /\ query = <<1, 2>>
    /\ realIndexes = [start |-> 1, length |-> 2]

(***************************************************************************)
(* C9.  When the occurrence scan has finished, the WarnRange list is in    *)
(* ascending offset order and holds, for each retained entry, one range    *)
(* per occurrence of its sentence found left to right with the search      *)
(* resuming at the end of the previous match: the ranges of a sentence are *)
(* occurrences, do not overlap one another, leave no occurrence to their   *)
(* right or left uncovered, and each is there once per retained entry      *)
(* with that sentence, whatever other sentences' ranges it overlaps.       *)
(***************************************************************************)
ScanFinished == pc \in {"seam", "lookup", "publish", "done"} /\ shouldWarn

OccursAt(text, sentence, p) ==
    /\ p + Len(sentence) <= Len(text)
    /\ Substr(text, p, Len(sentence)) = sentence

RangeCount(ranges, range) == Cardinality({i \in 1..Len(ranges) : ranges[i] = range})

EntryCount(entries, sentence) ==
    Cardinality({e \in 1..Len(entries) : entries[e][2] = sentence})

OffsetsOf(ranges, text, sentence) ==
    {ranges[i][1] : i \in {j \in 1..Len(ranges) :
        /\ ranges[j][2] = Len(sentence)
        /\ OccursAt(text, sentence, ranges[j][1])}}

C9_EveryOccurrenceSorted ==
    ScanFinished =>
        /\ \A i \in 1..(Len(cleanedWarnIndexes) - 1) :
               cleanedWarnIndexes[i][1] <= cleanedWarnIndexes[i + 1][1]
        /\ \A i \in 1..Len(cleanedWarnIndexes) :
               \E e \in 1..Len(sentencesByDifficulty) :
                   /\ cleanedWarnIndexes[i][2] = Len(sentencesByDifficulty[e][2])
                   /\ OccursAt(docContent, sentencesByDifficulty[e][2],
                               cleanedWarnIndexes[i][1])
        /\ \A e \in 1..Len(sentencesByDifficulty) :
               LET sentence == sentencesByDifficulty[e][2]
                   offsets == OffsetsOf(cleanedWarnIndexes, docContent, sentence)
               IN  /\ \A p, q \in offsets : p < q => p + Len(sentence) <= q
                   /\ \A q \in 0..Len(docContent) :
                          OccursAt(docContent, sentence, q) =>
                              \E p \in offsets : p <= q /\ q < p + Len(sentence)
                   /\ \A p \in offsets :
                          RangeCount(cleanedWarnIndexes, <<p, Len(sentence)>>)
                              = EntryCount(sentencesByDifficulty, sentence)

C9_Witness ==
    /\ pc = "done"
    /\ shouldWarn
    /\ \E e \in 1..Len(sentencesByDifficulty) :
           Cardinality(OffsetsOf(cleanedWarnIndexes, docContent,
                                 sentencesByDifficulty[e][2])) >= 3
    /\ \E i, j \in 1..Len(cleanedWarnIndexes) :
           /\ cleanedWarnIndexes[i][1] = cleanedWarnIndexes[j][1]
           /\ cleanedWarnIndexes[i][2] # cleanedWarnIndexes[j][2]

(***************************************************************************)
(* C10.  Difficult spans are produced only when the document score crosses *)
(* the threshold in the formula's difficult direction: with highlighting   *)
(* enabled Flesch Reading Ease warns exactly when score < threshold, every *)
(* other formula exactly when score > threshold, equality never; without a *)
(* warning no sentence is ranked and the findings are the empty sequence.  *)
(***************************************************************************)
ScoreBelow(score, threshold) ==
    score.k = "num" /\ score.n < threshold * score.d

ScoreAbove(score, threshold) ==
    \/ score.k = "inf"
    \/ score.k = "num" /\ score.n > threshold * score.d

C10_WarnOnlyWhenCrossed ==
    pc # "start" =>
        /\ shouldWarn <=>
               /\ warningsEnabled
               /\ IF configuredFormula = "flesch"
                  THEN ScoreBelow(readability, warnScore)
                  ELSE ScoreAbove(readability, warnScore)
        /\ (readability.k = "num" /\ readability.n = warnScore * readability.d)
               => ~shouldWarn
        /\ ~shouldWarn =>
               /\ pc \in {"publish", "done"}
               /\ pushed = <<>>
               /\ cleanedWarnIndexes = <<>>
               /\ diagnostics = <<>>

C10_Witness ==
    /\ pc = "done"
    /\ configuredFormula = "flesch"
    /\ shouldWarn
    /\ ScoreBelow(readability, warnScore)
    /\ diagnostics # <<>>

C10_WitnessEquality ==
    /\ pc = "done"
    /\ warningsEnabled
    /\ readability = Num(warnScore, 1)
    /\ ~shouldWarn

(***************************************************************************)
(* C11.  The sentence count of every text a formula is applied to, the     *)
(* stripped document and every ranked sentence, is at least 1: it is the   *)
(* number of matches of "word character, one of . ? !, then whitespace or  *)
(* end of text" plus the number of matches of "word character, optional    *)
(* colon, newline" when that sum is positive, and 1 when the sum is 0.     *)
(***************************************************************************)
\* the matches a global regular expression reports: found left to right,
\* each search resuming after the previous match
RECURSIVE TerminatorMatches(_, _)
TerminatorMatches(text, i) ==
    IF i > Len(text) THEN 0
    ELSE IF /\ IsWord(text[i])
            /\ i + 1 <= Len(text)
            /\ IsTerminator(text[i + 1])
            /\ (i + 2 > Len(text) \/ IsSpace(text[i + 2]))
         THEN 1 + TerminatorMatches(text, IF i + 2 > Len(text) THEN i + 2 ELSE i + 3)
         ELSE TerminatorMatches(text, i + 1)

RECURSIVE LineEndMatches(_, _)
LineEndMatches(text, i) ==
    IF i > Len(text) THEN 0
    ELSE IF IsWord(text[i]) /\ i + 2 <= Len(text) /\ text[i + 1] = ":" /\ text[i + 2] = "\n"
         THEN 1 + LineEndMatches(text, i + 3)
    ELSE IF IsWord(text[i]) /\ i + 1 <= Len(text) /\ text[i + 1] = "\n"
         THEN 1 + LineEndMatches(text, i + 2)
    ELSE LineEndMatches(text, i + 1)

RawSentenceCount(text) == TerminatorMatches(text, 1) + LineEndMatches(text, 1)

\* the texts whose sentences have been counted so far
CountedTexts ==
    IF pc = "start" THEN {}
    ELSE {docContent} \cup {pushed[i][2] : i \in 1..Len(pushed)}

C11_SentenceCountAtLeastOne ==
    \A text \in CountedTexts :
        /\ _getSentenceCount(text) >= 1
        /\ RawSentenceCount(text) > 0 => _getSentenceCount(text) = RawSentenceCount(text)
        /\ RawSentenceCount(text) = 0 => _getSentenceCount(text) = 1

C11_Witness ==
    /\ pc = "done"
    /\ RawSentenceCount(docContent) >= 2
    /\ LineEndMatches(docContent, 1) >= 1
    /\ _getSentenceCount(docContent) = RawSentenceCount(docContent)
    /\ \E i \in 1..Len(pushed) :
           /\ pushed[i][2] # <<>>
           /\ RawSentenceCount(pushed[i][2]) = 0
           /\ _getSentenceCount(pushed[i][2]) = 1

(***************************************************************************)
(* C12.  After every insertion the difficult-sentence collection holds at  *)
(* most three entries and is ordered most difficult first: no entry is     *)
(* followed by one of higher score, or for Flesch Reading Ease by one of   *)
(* lower score.                                                            *)
(***************************************************************************)
OutOfOrder(formula, earlier, later) ==
    IF formula = "flesch"
    THEN Greater(earlier[1], later[1])
    ELSE Less(earlier[1], later[1])

C12_CollectionBoundedAndOrdered ==
    /\ Len(sentencesByDifficulty) <= MaxDifficult
    /\ \A i, j \in 1..Len(sentencesByDifficulty) :
           i < j => ~OutOfOrder(configuredFormula, sentencesByDifficulty[i],
                                sentencesByDifficulty[j])

\* the collection as sort leaves it when every comparison with the NaN score
\* of the bare terminator is read as +0: the order of insertion
C12_Unordered ==
    /\ docContent = DocBareTerminator
    /\ configuredFormula = "dale-chall"
    /\ pc = "done"
    /\ Len(pushed) = 3
    /\ sentencesByDifficulty = pushed
    /\ pushed[2][1] = NaN
    /\ Less(pushed[1][1], pushed[3][1])

(***************************************************************************)
(* C13.  For any pair of texts, a stripped text that is not a subsequence  *)
(* of original included, construction reaches its end: the cursors stay    *)
(* within the texts and the walk stops as soon as either is exhausted.     *)
(* The stripped cursor then stands at the end of the longest prefix of     *)
(* stripped that original embeds, the seams are the elided runs before the *)
(* characters of that prefix, a run still open is not among them, and a    *)
(* range that starts at or after the end of the prefix is shifted by the   *)
(* total length of the recorded seams, its length unchanged.               *)
(***************************************************************************)
\* the length of the longest prefix of stripped that is a subsequence of original
MatchedPrefix(original, stripped) ==
    CHOOSE k \in 0..Len(stripped) :
        /\ IsSubsequence(SubSeq(stripped, 1, k), original)
        /\ \A j \in (k + 1)..Len(stripped) :
               ~IsSubsequence(SubSeq(stripped, 1, j), original)

C13_WalkWithinTexts ==
    /\ 0 <= strippedIndex
    /\ strippedIndex <= originalIndex
    /\ originalIndex <= Len(rawDocContent)
    /\ strippedIndex <= Len(docContent)

C13_SeamsOfMatchedPrefix ==
    LET matched == MatchedPrefix(rawDocContent, docContent)
        prefix == SubSeq(docContent, 1, matched)
    IN  /\ strippedIndex = matched
        /\ originalIndex = IF matched = Len(docContent)
                           THEN AlignPos(rawDocContent, prefix, matched - 1) + 1
                           ELSE Len(rawDocContent)
        /\ seams = ElidedRuns(rawDocContent, prefix, 0)
        /\ \A i \in 1..Len(seams) : seams[i][1] < matched
        /\ \A r \in ValidRanges(docContent) :
               r[1] >= matched =>
                   lookup(seams, r[1], r[2]) =
                       [start |-> r[1] + SeamLengthSum(seams), length |-> r[2]]

C13_ConstructionCompletes ==
    /\ [](C13_WalkWithinTexts /\ (Constructed => C13_SeamsOfMatchedPrefix))
    /\ <>Constructed

C13_Witness ==
    /\ Constructed
    /\ ~IsSubsequence(docContent, rawDocContent)
    /\ seams # <<>>
    /\ seamStart # -1
    /\ strippedIndex < Len(docContent)
    /\ query[1] >= strippedIndex
    /\ query[2] >= 1
    /\ realIndexes = [start |-> query[1] + SeamLengthSum(seams), length |-> query[2]]

(***************************************************************************)
(* C14.  A lookup leaves the seam sequence, original and stripped as they  *)
(* were, and whatever lookups came before it, its result is the one a      *)
(* newly constructed SeamFinder for the same two texts gives for the same  *)
(* offset and length.                                                      *)
(***************************************************************************)
\* the seams a new SeamFinder(original, stripped) holds when its constructor
\* returns: the loop of the constructor run from the given cursors
RECURSIVE ConstructedSeams(_, _, _, _, _, _)
ConstructedSeams(original, stripped, oi, si, start, acc) ==
    IF ~(oi < Len(original) /\ si < Len(stripped)) THEN acc
    ELSE IF original[oi + 1] = stripped[si + 1]
         THEN ConstructedSeams(original, stripped, oi + 1, si + 1, -1,
                  IF start # -1 THEN Append(acc, <<si, oi - start>>) ELSE acc)
         ELSE ConstructedSeams(original, stripped, oi + 1, si,
                  IF start = -1 THEN oi ELSE start, acc)

FreshLookup(startIndex, length) ==
    lookup(ConstructedSeams(rawDocContent, docContent, 0, 0, -1, <<>>),
           startIndex, length)

C14_LookupLeavesFinderUnchanged ==
    [][(pc = "lookup" /\ pc' = "lookup") =>
           /\ seams' = seams
           /\ rawDocContent' = rawDocContent
           /\ docContent' = docContent
           /\ realIndexes' = FreshLookup(query'[1], query'[2])]_vars

C14_Witness ==
    /\ Constructed
    /\ Len(seams) >= 2
    /\ query[1] >= 1
    /\ query[2] >= 1
    /\ realIndexes.start > query[1]
    /\ realIndexes.length > query[2]
    /\ realIndexes = FreshLookup(query[1], query[2])

(***************************************************************************)
(* C15.  For the seams of any constructed SeamFinder: the translated       *)
(* offset does not depend on the length and is strictly increasing in the  *)
(* stripped offset, so of two stripped offsets the greater is translated   *)
(* to the greater original offset whatever the lengths; a range of length  *)
(* at least 1 is translated to a range at least as long; ranges in         *)
(* ascending stripped offset are translated to ranges in ascending         *)
(* original offset; and when stripped is a subsequence of original, every  *)
(* valid stripped range is translated to a range with both ends within     *)
(* 0 .. |original|.                                                        *)
(***************************************************************************)
StrippedOffsets == 0..Len(docContent)

IsAscending(offsets) ==
    \A i, j \in 1..Len(offsets) : i < j => offsets[i] <= offsets[j]

C15_TranslationKeepsOrderAndSize ==
    Constructed =>
        /\ \A o \in StrippedOffsets :
               \A l \in StrippedOffsets :
                   lookup(seams, o, l).start = lookup(seams, o, 0).start
        /\ \A o1, o2 \in StrippedOffsets :
               o1 < o2 => lookup(seams, o1, 0).start < lookup(seams, o2, 0).start
        /\ \A o \in StrippedOffsets :
               \A l \in 1..(Len(docContent) + 1) : lookup(seams, o, l).length >= l
        /\ IsAscending([i \in 1..Len(cleanedWarnIndexes) |-> cleanedWarnIndexes[i][1]])
               => IsAscending([i \in 1..Len(diagnostics) |-> diagnostics[i][1]])
        /\ IsSubsequence(docContent, rawDocContent) =>
               \A r \in ValidRanges(docContent) :
                   LET found == lookup(seams, r[1], r[2])
                   IN  /\ 0 <= found.start
                       /\ found.start <= Len(rawDocContent)
                       /\ 0 <= found.start + found.length
                       /\ found.start + found.length <= Len(rawDocContent)

C15_Witness ==
    /\ Constructed
    /\ IsSubsequence(docContent, rawDocContent)
    /\ Len(seams) >= 2
    /\ seams[1][1] = 0
    /\ query = <<0, Len(docContent)>>
    /\ realIndexes.start > 0
    /\ realIndexes.length > query[2]
    /\ realIndexes.start + realIndexes.length = Len(rawDocContent)

(***************************************************************************)
(* C16.  Between events the published diagnostic collection equals the     *)
(* diagnostic map: it has an entry exactly for the markdown and plaintext  *)
(* documents analysed since they were last closed, the entry of a document *)
(* holds the findings of its most recent analysis, and a closed document   *)
(* has no entry.                                                           *)
(***************************************************************************)
C16_CollectionMatchesAnalyses ==
    /\ DOMAIN diagnosticCollection = {UriParse(file) : file \in DOMAIN diagnosticMap}
    /\ \A file \in DOMAIN diagnosticMap :
           diagnosticCollection[UriParse(file)] = diagnosticMap[file]
    /\ DOMAIN diagnosticCollection =
           {document \in Documents : lastAnalysis[document].analysed}
    /\ \A document \in DOMAIN diagnosticCollection :
           /\ diagnosticCollection[document] = lastAnalysis[document].findings
           /\ languageId(document) \in {"markdown", "plaintext"}
           /\ document \in openDocuments

\* a.md was analysed, then b.txt with other findings, then b.txt was closed:
\* the entry of a.md is as its analysis left it and b.txt has none
C16_Witness ==
    /\ pc = "done"
    /\ doc = "b.txt"
    /\ diagnostics # <<>>
    /\ "b.txt" \notin openDocuments
    /\ "a.md" \in openDocuments
    /\ DOMAIN diagnosticCollection = {"a.md"}
    /\ diagnosticCollection["a.md"] # <<>>
    /\ diagnosticCollection["a.md"] # diagnostics
    /\ DOMAIN diagnosticMap = {UriToString("a.md")}

====
